---------------------------- MODULE Spec2Model ----------------------------
(***************************************************************************)
(* Sonny Core (src/server.js): the Google OAuth authorization-code flow,   *)
(* the in-memory credential store TOKENS and the action dispatcher, as a   *)
(* state machine.  One action per run of a handler between two awaits:     *)
(* Node runs a handler without interruption up to its next await, so the   *)
(* arrival of a request, the settling of its fetch and the settling of     *)
(* the body read are the atomic steps.                                     *)
(*                                                                         *)
(* Strings that pass through the state token codec are sequences of        *)
(* one-character strings, so that JSON.stringify, base64url, the lenient   *)
(* base64 decoder of Buffer.from and JSON.parse are computed, not assumed. *)
(***************************************************************************)
EXTENDS Integers, Sequences, FiniteSets, TLC

\* Largest value Date.now() takes in the model.
MaxTs == 1

-----------------------------------------------------------------------------
(* Characters and bytes *)

\* The ASCII characters the model's strings are made of, with their codes.
Code ==
  ( "{" :> 123 @@ "}" :> 125 @@ "\"" :> 34 @@ "\\" :> 92 @@ ":" :> 58 @@
    "," :> 44 @@ "0" :> 48 @@ "1" :> 49 @@ "2" :> 50 @@ "3" :> 51 @@
    "4" :> 52 @@ "5" :> 53 @@ "6" :> 54 @@ "7" :> 55 @@ "8" :> 56 @@
    "9" :> 57 @@ "u" :> 117 @@ "s" :> 115 @@ "e" :> 101 @@ "r" :> 114 @@
    "I" :> 73 @@ "d" :> 100 @@ "t" :> 116 @@ "a" :> 97 @@ "n" :> 110 @@
    "o" :> 111 @@ "l" :> 108 @@ "x" :> 120 )

\* A byte that is no character of the model decodes to this marker, as a byte
\* sequence that is not the UTF-8 of a known character does in toString("utf8").
REPLACEMENT == "U+FFFD"

Digit == <<"0", "1", "2", "3", "4", "5", "6", "7", "8", "9">>

\* Buffer.from(string): the UTF-8 bytes of an ASCII string.
Utf8Bytes(s) == [i \in 1..Len(s) |-> Code[s[i]]]

\* buf.toString("utf8")
Utf8String(bytes) ==
  [i \in 1..Len(bytes) |->
     IF \E c \in DOMAIN Code : Code[c] = bytes[i]
     THEN CHOOSE c \in DOMAIN Code : Code[c] = bytes[i]
     ELSE REPLACEMENT]

\* String(n) for a non-negative integer n.
RECURSIVE NumberToString(_)
NumberToString(n) ==
  IF n < 10 THEN <<Digit[n + 1]>>
  ELSE NumberToString(n \div 10) \o <<Digit[(n % 10) + 1]>>

-----------------------------------------------------------------------------
(* base64url *)

\* The base64url alphabet: the character of each 6-bit value, from 0.
B64URL ==
  << "A","B","C","D","E","F","G","H","I","J","K","L","M","N","O","P",
     "Q","R","S","T","U","V","W","X","Y","Z","a","b","c","d","e","f",
     "g","h","i","j","k","l","m","n","o","p","q","r","s","t","u","v",
     "w","x","y","z","0","1","2","3","4","5","6","7","8","9","-","_" >>

\* buf.toString("base64url"): three bytes make four characters, a rest of one
\* byte makes two, a rest of two makes three; no padding is written.
RECURSIVE ToBase64url(_)
ToBase64url(bytes) ==
  IF Len(bytes) = 0 THEN <<>>
  ELSE IF Len(bytes) = 1 THEN
    << B64URL[(bytes[1] \div 4) + 1], B64URL[((bytes[1] % 4) * 16) + 1] >>
  ELSE IF Len(bytes) = 2 THEN
    << B64URL[(bytes[1] \div 4) + 1],
       B64URL[((bytes[1] % 4) * 16 + bytes[2] \div 16) + 1],
       B64URL[((bytes[2] % 16) * 4) + 1] >>
  ELSE
    << B64URL[(bytes[1] \div 4) + 1],
       B64URL[((bytes[1] % 4) * 16 + bytes[2] \div 16) + 1],
       B64URL[((bytes[2] % 16) * 4 + bytes[3] \div 64) + 1],
       B64URL[(bytes[3] % 64) + 1] >>
    \o ToBase64url(SubSeq(bytes, 4, Len(bytes)))

\* The 6-bit value of a character in Node's decoder, which reads the base64
\* and the base64url alphabets alike; 64 for a character of neither.
Unbase64(c) ==
  IF \E v \in 1..64 : B64URL[v] = c THEN (CHOOSE v \in 1..64 : B64URL[v] = c) - 1
  ELSE IF c = "+" THEN 62
  ELSE IF c = "/" THEN 63
  ELSE 64

\* The 6-bit values the decoder reads from a string: a character outside the
\* alphabets is skipped, "=" ends the input.
RECURSIVE Sextets(_)
Sextets(s) ==
  IF Len(s) = 0 \/ s[1] = "=" THEN <<>>
  ELSE IF Unbase64(s[1]) = 64 THEN Sextets(Tail(s))
  ELSE <<Unbase64(s[1])>> \o Sextets(Tail(s))

RECURSIVE SextetsToBytes(_)
SextetsToBytes(v) ==
  IF Len(v) < 2 THEN <<>>
  ELSE IF Len(v) = 2 THEN << v[1] * 4 + v[2] \div 16 >>
  ELSE IF Len(v) = 3 THEN
    << v[1] * 4 + v[2] \div 16, (v[2] % 16) * 16 + v[3] \div 4 >>
  ELSE
    << v[1] * 4 + v[2] \div 16, (v[2] % 16) * 16 + v[3] \div 4,
       (v[3] % 4) * 64 + v[4] >>
    \o SextetsToBytes(SubSeq(v, 5, Len(v)))

\* Buffer.from(string, "base64url"): never throws.
FromBase64url(s) == SextetsToBytes(Sextets(s))

-----------------------------------------------------------------------------
(* JSON *)

\* JavaScript values: strings, numbers, null, undefined and objects.
JsString(s) == [t |-> "string", v |-> s]
JsNumber(n) == [t |-> "number", v |-> n]
JsObject(f) == [t |-> "object", v |-> f]
JsNull == [t |-> "null", v |-> 0]
Undefined == [t |-> "undefined", v |-> 0]

\* JSON.stringify of a string: quoted, with the quote and the backslash escaped.
RECURSIVE EscapeChars(_)
EscapeChars(s) ==
  IF Len(s) = 0 THEN <<>>
  ELSE (IF s[1] \in {"\"", "\\"} THEN <<"\\", s[1]>> ELSE <<s[1]>>)
       \o EscapeChars(Tail(s))

\* Mutant: the string is quoted as it is.
QuoteJSONStringRaw(s) == <<"\"">> \o s \o <<"\"">>

QuoteJSONString(s) == <<"\"">> \o EscapeChars(s) \o <<"\"">>

\* JSON.stringify({ userId, ts }) with a string userId and a number ts.
StringifyState(userId, ts) ==
  <<"{">> \o QuoteJSONString(<<"u","s","e","r","I","d">>) \o <<":">>
  \o QuoteJSONString(userId) \o <<",">>
  \o QuoteJSONString(<<"t","s">>) \o <<":">> \o NumberToString(ts) \o <<"}">>

\* Results of the parsing steps: the value read and the text after it.
Parsed(val, rest) == [ok |-> TRUE, val |-> val, rest |-> rest]
SyntaxError == [ok |-> FALSE, val |-> Undefined, rest |-> <<>>]

\* The characters of a JSON string, from just after its opening quote.
RECURSIVE ParseChars(_, _)
ParseChars(s, acc) ==
  IF Len(s) = 0 THEN SyntaxError
  ELSE IF s[1] = "\"" THEN Parsed(JsString(acc), Tail(s))
  ELSE IF s[1] = "\\" THEN
    IF Len(s) >= 2 /\ s[2] \in {"\"", "\\"}
    THEN ParseChars(SubSeq(s, 3, Len(s)), Append(acc, s[2]))
    ELSE SyntaxError
  ELSE IF s[1] = REPLACEMENT \/ s[1] \notin DOMAIN Code THEN SyntaxError
  ELSE ParseChars(Tail(s), Append(acc, s[1]))

IsDigit(c) == \E i \in 1..10 : Digit[i] = c
DigitValue(c) == (CHOOSE i \in 1..10 : Digit[i] = c) - 1

RECURSIVE ParseDigits(_, _)
ParseDigits(s, acc) ==
  IF Len(s) > 0 /\ IsDigit(s[1])
  THEN ParseDigits(Tail(s), acc * 10 + DigitValue(s[1]))
  ELSE Parsed(JsNumber(acc), s)

\* A JSON number of the model: a non-negative integer without a leading zero.
ParseNumber(s) ==
  IF s[1] = "0" THEN Parsed(JsNumber(0), Tail(s)) ELSE ParseDigits(s, 0)

\* A JSON value: an object whose members are strings, numbers, null or
\* objects; a string; a number; null.  Anything else is a SyntaxError.
RECURSIVE ParseValue(_)
RECURSIVE ParseMembers(_, _)
ParseMembers(s, obj) ==
  IF Len(s) = 0 \/ s[1] # "\"" THEN SyntaxError
  ELSE LET k == ParseChars(Tail(s), <<>>) IN
    IF ~k.ok \/ Len(k.rest) = 0 \/ k.rest[1] # ":" THEN SyntaxError
    ELSE LET m == ParseValue(Tail(k.rest)) IN
      IF ~m.ok \/ Len(m.rest) = 0 THEN SyntaxError
      ELSE LET next == [key \in DOMAIN obj \cup {k.val.v} |->
                          IF key = k.val.v THEN m.val ELSE obj[key]] IN
        IF m.rest[1] = "}" THEN Parsed(JsObject(next), Tail(m.rest))
        ELSE IF m.rest[1] = "," THEN ParseMembers(Tail(m.rest), next)
        ELSE SyntaxError

ParseValue(s) ==
  IF Len(s) = 0 THEN SyntaxError
  ELSE IF s[1] = "{" THEN
    IF Len(s) >= 2 /\ s[2] = "}"
    THEN Parsed(JsObject(<<>>), SubSeq(s, 3, Len(s)))
    ELSE ParseMembers(Tail(s), <<>>)
  ELSE IF s[1] = "\"" THEN ParseChars(Tail(s), <<>>)
  ELSE IF IsDigit(s[1]) THEN ParseNumber(s)
  ELSE IF Len(s) >= 4 /\ SubSeq(s, 1, 4) = <<"n","u","l","l">>
    THEN Parsed(JsNull, SubSeq(s, 5, Len(s)))
  ELSE SyntaxError

\* JSON.parse(text): the value, or a thrown SyntaxError.
JSONparse(text) ==
  LET r == ParseValue(text) IN
    IF r.ok /\ Len(r.rest) = 0 THEN r ELSE SyntaxError


-----------------------------------------------------------------------------
(* The flow state token *)

\* `x || "anon"` followed by String(): the default of an absent or empty id.
ANON == <<"a", "n", "o", "n">>

\* JavaScript truthiness of the values of the model.
Truthy(x) ==
  CASE x.t = "string" -> Len(x.v) > 0
    [] x.t = "number" -> x.v # 0
    [] x.t = "object" -> TRUE
    [] OTHER -> FALSE

\* String(x) for a truthy value x.
StringOf(x) ==
  CASE x.t = "string" -> x.v
    [] x.t = "number" -> NumberToString(x.v)
    [] OTHER -> <<"o", "o">>

\* Start, line 92: String(req.query.userId || "anon").
QueryUserId(q) == IF Len(q) = 0 THEN ANON ELSE q

\* Start, line 104: Buffer.from(JSON.stringify({ userId, ts })).toString("base64url").
EncodeState(userId, ts) == ToBase64url(Utf8Bytes(StringifyState(userId, ts)))

\* Callback, line 127: JSON.parse(Buffer.from(stateRaw, "base64url").toString("utf8")).
DecodeState(stateRaw) == JSONparse(Utf8String(FromBase64url(stateRaw)))

\* state?.userId
StateUserIdField(state) ==
  IF state.t = "object" /\ <<"u","s","e","r","I","d">> \in DOMAIN state.v
  THEN state.v[<<"u","s","e","r","I","d">>]
  ELSE Undefined

\* Callback, line 128: String(state?.userId || "anon").
StateUserId(state) ==
  IF Truthy(StateUserIdField(state)) THEN StringOf(StateUserIdField(state))
  ELSE ANON


-----------------------------------------------------------------------------
(* Requests, responses and the environment *)

VARIABLES
  API_KEY,              \* line 11, "" when the environment does not set it
  OPENAI_API_KEY,       \* line 12
  GOOGLE_CLIENT_ID,     \* line 15
  GOOGLE_REDIRECT_URI,  \* line 17
  variant,              \* which of the file's two programs runs: the core
                        \* (lines 1-243) or the stub (lines 249-303), which
                        \* reads API_KEY alone
  TOKENS,               \* line 20: userId -> the stored token response
  req,                  \* the request each worker is handling, or handled last
  hist                  \* history, no state of the program: what the flows
                        \* did so far, kept by the specifications that
                        \* record it and left empty by the others

vars == << API_KEY, OPENAI_API_KEY, GOOGLE_CLIENT_ID, GOOGLE_REDIRECT_URI,
           variant, TOKENS, req, hist >>

config == << API_KEY, OPENAI_API_KEY, GOOGLE_CLIENT_ID, GOOGLE_REDIRECT_URI,
             variant >>

\* The requests handled one after the other.
Workers == {1}

\* The values Date.now() takes: one and two digits.
Clock == {9 + k : k \in 0..MaxTs}

\* A caller-supplied user id that holds a quote, so that JSON escapes it.
U1 == <<"u", "\"", "1">>

\* req.query.userId of Start and of the profile query: absent, or an id.
QueryUserIds == {<<>>, U1}

\* What a worker holds: the operation, where its handler stands (idle, at the
\* await of fetch, at the await of the body read, done), the request, the
\* handler's locals, the responses written to res, the fetch calls issued.
Idle ==
  [op |-> "idle", pc |-> "idle", q |-> <<>>, loc |-> <<>>, res |-> <<>>,
   calls |-> <<>>]

Free(r) == req[r].pc \in {"idle", "done"}

\* res.status(s).json(body), res.status(s).send(text), res.redirect(url)
Json(status, body) == [status |-> status, type |-> "json", body |-> body]
Send(status, text) == [status |-> status, type |-> "send", body |-> text]
Redirect(url) == [status |-> 302, type |-> "redirect", body |-> url]

\* A handler that answers without awaiting anything.
Answered(op, q, response) ==
  [op |-> op, pc |-> "done", q |-> q, loc |-> <<>>, res |-> <<response>>,
   calls |-> <<>>]

\* A handler that issued a fetch and awaits it.
Fetching(op, q, loc, call) ==
  [op |-> op, pc |-> "fetch", q |-> q, loc |-> loc, res |-> <<>>,
   calls |-> <<call>>]

\* The handler goes on after an await: to the next await, or to its response.
GoOn(r, pc, loc) == [req EXCEPT ![r].pc = pc, ![r].loc = loc]
Respond(r, response) ==
  [req EXCEPT ![r].pc = "done", ![r].res = Append(req[r].res, response)]

\* A body that is not JSON: response.json() rejects.
NotJSON == [notJSON |-> TRUE]

\* response.ok
Ok(response) == response.status \in 200..299

\* What the token endpoint answers: a token set, a token set without an
\* access token, an error object, or a body that is not JSON.
TokenSet(access, refresh) ==
  [access_token |-> access, refresh_token |-> refresh, token_type |-> "Bearer"]
TokenResponses ==
  { [status |-> 200, body |-> TokenSet("at1", "rt1")],
    [status |-> 200, body |-> TokenSet("at2", "rt2")],
    [status |-> 200, body |-> [token_type |-> "Bearer"]],
    [status |-> 200, body |-> NotJSON],
    [status |-> 400, body |-> [error |-> "invalid_grant"]],
    [status |-> 502, body |-> NotJSON] }

\* tokens?.access_token of a stored record, "" when there is none.
NoRecord == [undefined |-> TRUE]
AccessToken(tokens) ==
  IF tokens # NoRecord /\ "access_token" \in DOMAIN tokens
  THEN tokens.access_token ELSE ""

\* Mutant: the store is read without the key, any record will do.
GetAnyRecord(userId) ==
  IF DOMAIN TOKENS = {} THEN NoRecord
  ELSE TOKENS[CHOOSE k \in DOMAIN TOKENS : TRUE]

\* Mutant: the store is replaced by a map that holds the new entry alone.
SetAlone(userId, tokens) == [k \in {userId} |-> tokens]

\* Mutant: the store keeps the access token of the response, not the response.
SetAccessToken(userId, tokens) ==
  [k \in DOMAIN TOKENS \cup {userId} |->
     IF k = userId THEN [access_token |-> AccessToken(tokens)] ELSE TOKENS[k]]

\* Mutant: a userId that has a record keeps it, the first writer wins.
SetOnce(userId, tokens) ==
  [k \in DOMAIN TOKENS \cup {userId} |->
     IF k \in DOMAIN TOKENS THEN TOKENS[k] ELSE tokens]

\* TOKENS.get(userId), TOKENS.set(userId, tokens)
Get(userId) == IF userId \in DOMAIN TOKENS THEN TOKENS[userId] ELSE NoRecord
Set(userId, tokens) ==
  [k \in DOMAIN TOKENS \cup {userId} |->
     IF k = userId THEN tokens ELSE TOKENS[k]]

\* Nothing happened yet: no Start redirected, no read of the store observed
\* a record, no exchange completed.
NoHistory == [started |-> {}, read |-> <<>>, stored |-> <<>>]

Init ==
  /\ API_KEY \in {"", "k1"}
  /\ \/ /\ variant = "core"
        /\ OPENAI_API_KEY \in {"", "sk1"}
        /\ GOOGLE_CLIENT_ID \in {"", "cid"}
        /\ GOOGLE_REDIRECT_URI \in {"", "https://sonny/cb"}
     \/ /\ variant = "stub"
        /\ OPENAI_API_KEY = ""
        /\ GOOGLE_CLIENT_ID = ""
        /\ GOOGLE_REDIRECT_URI = ""
  /\ TOKENS = <<>>
  /\ req = [r \in Workers |-> Idle]
  /\ hist = NoHistory

-----------------------------------------------------------------------------
(* GET /health, lines 33-35 and 271-273 *)

Health(r) ==
  /\ Free(r)
  /\ \E now \in Clock :
       req' = [req EXCEPT ![r] =
                 Answered("health", <<>>,
                          Json(200, [ok |-> TRUE, service |-> "Sonny Core",
                                     ts |-> now]))]
  /\ UNCHANGED << config, TOKENS, hist >>

-----------------------------------------------------------------------------
(* GET /oauth/google/start, lines 90-120 *)

AuthorizationUrl(state) ==
  [endpoint |-> "https://accounts.google.com/o/oauth2/v2/auth",
   client_id |-> GOOGLE_CLIENT_ID,
   redirect_uri |-> GOOGLE_REDIRECT_URI,
   response_type |-> "code",
   access_type |-> "offline",
   prompt |-> "consent",
   scope |-> <<"https://www.googleapis.com/auth/gmail.send",
               "https://www.googleapis.com/auth/gmail.readonly",
               "openid", "email", "profile">>,
   state |-> state]

\* Mutant: Start gives up only when both settings are missing.
StartResponseEither(userId, now) ==
  IF GOOGLE_CLIENT_ID = "" /\ GOOGLE_REDIRECT_URI = ""
  THEN Send(500, "Google OAuth not configured.")
  ELSE Redirect(AuthorizationUrl(EncodeState(userId, now)))

StartResponse(userId, now) ==
  IF GOOGLE_CLIENT_ID = "" \/ GOOGLE_REDIRECT_URI = ""
  THEN Send(500, "Google OAuth not configured.")
  ELSE Redirect(AuthorizationUrl(EncodeState(userId, now)))

OAuthStart(r) ==
  /\ variant = "core"
  /\ Free(r)
  /\ \E q \in QueryUserIds, now \in Clock :
       req' = [req EXCEPT ![r] =
                 Answered("start", [userId |-> q],
                          StartResponse(QueryUserId(q), now))]
  /\ UNCHANGED << config, TOKENS, hist >>


-----------------------------------------------------------------------------
(* GET /oauth/google/callback, lines 123-160 *)

\* req.query.code: absent, or a code.
Codes == {"", "c1"}

\* The text of a JSON document that is no flow state: no userId member.
NoUserIdText == <<"{", "\"", "t", "s", "\"", ":", "9", "}">>
NullText == <<"n", "u", "l", "l">>

\* The state tokens Start hands out.
IssuedStates ==
  {EncodeState(QueryUserId(q), now) : q \in QueryUserIds, now \in Clock}

\* State tokens Start never hands out: none at all, no base64 at all, a
\* token cut short, a token with a character outside the alphabet put in
\* front, and the encodings of documents without a userId.
ForgedStates ==
  { <<>>, <<"!", "!">>,
    SubSeq(EncodeState(U1, 9), 1, Len(EncodeState(U1, 9)) - 1),
    <<"!">> \o EncodeState(U1, 9),
    ToBase64url(Utf8Bytes(NoUserIdText)),
    ToBase64url(Utf8Bytes(NullText)) }

\* req.query.state
CallbackStates == IssuedStates \cup ForgedStates

TokenExchange(code) ==
  [url |-> "https://oauth2.googleapis.com/token", method |-> "POST",
   code |-> code, client_id |-> GOOGLE_CLIENT_ID,
   redirect_uri |-> GOOGLE_REDIRECT_URI, grant_type |-> "authorization_code"]

CallbackError == Send(500, "OAuth callback error.")

\* Lines 125-142: up to the await of fetch.  JSON.parse throws into the catch
\* of line 156 before the code is looked at.
\* DecodeState of every token of the model, computed once.
Decoded == [s \in CallbackStates |-> DecodeState(s)]

CallbackArrives(q) ==
  LET state == Decoded[q.state] IN
    IF ~state.ok THEN Answered("callback", q, CallbackError)
    ELSE IF q.code = "" THEN Answered("callback", q, Send(400, "Missing code"))
    ELSE Fetching("callback", q,
                  [code |-> q.code, userId |-> StateUserId(state.val)],
                  TokenExchange(q.code))

OAuthCallback(r) ==
  /\ variant = "core"
  /\ Free(r)
  /\ \E code \in Codes, state \in CallbackStates :
       req' = [req EXCEPT ![r] = CallbackArrives([code |-> code, state |-> state])]
  /\ UNCHANGED << config, TOKENS, hist >>

\* Lines 132-144: fetch settles.  It rejects (no network), or it resolves to a
\* response and the handler awaits tokenRes.json().
CallbackFetched(r) ==
  /\ req[r].op = "callback" /\ req[r].pc = "fetch"
  /\ \/ req' = Respond(r, CallbackError)
     \/ \E tokenRes \in TokenResponses :
          req' = GoOn(r, "body", [code |-> req[r].loc.code,
                                  userId |-> req[r].loc.userId,
                                  tokenRes |-> tokenRes])
  /\ UNCHANGED << config, TOKENS, hist >>

\* Mutant: the store is written before the status is looked at.
CallbackStoresUnchecked(tokenRes) == tokenRes.body # NotJSON

\* Lines 144-155: tokenRes.json() settles.  Whether the store is written.
CallbackStores(tokenRes) == tokenRes.body # NotJSON /\ Ok(tokenRes)

CallbackResponse(tokenRes) ==
  IF tokenRes.body = NotJSON THEN CallbackError
  ELSE IF ~Ok(tokenRes) THEN Send(500, "Token exchange failed.")
  ELSE Send(200, "Sonny: Google connected")

\* Mutant: a failed exchange drops the user's record.
CallbackBodyUnlinks(r) ==
  /\ req[r].op = "callback" /\ req[r].pc = "body"
  /\ TOKENS' = IF CallbackStores(req[r].loc.tokenRes)
               THEN Set(req[r].loc.userId, req[r].loc.tokenRes.body)
               ELSE [k \in DOMAIN TOKENS \ {req[r].loc.userId} |-> TOKENS[k]]
  /\ req' = Respond(r, CallbackResponse(req[r].loc.tokenRes))
  /\ UNCHANGED << config, hist >>

CallbackBody(r) ==
  /\ req[r].op = "callback" /\ req[r].pc = "body"
  /\ TOKENS' = IF CallbackStores(req[r].loc.tokenRes)
               THEN Set(req[r].loc.userId, req[r].loc.tokenRes.body)
               ELSE TOKENS
  /\ req' = Respond(r, CallbackResponse(req[r].loc.tokenRes))
  /\ UNCHANGED << config, hist >>

-----------------------------------------------------------------------------
(* The bearer check, lines 23-30 and 261-268 *)

\* req.headers.authorization: absent, or a scheme prefix and what follows it.
Authorizations ==
  { <<>>, <<"Bearer ", "k1">>, <<"Bearer ", "">>, <<"Basic ", "k1">> }

\* header.startsWith("Bearer ") ? header.slice(7) : ""
BearerToken(header) ==
  IF Len(header) = 2 /\ header[1] = "Bearer " THEN header[2] ELSE ""

\* Mutant: the configured key is not looked at, an empty token matches an
\* unset key.
authTokenOnly(header) == BearerToken(header) = API_KEY

\* Whether auth calls next().
auth(header) == API_KEY # "" /\ BearerToken(header) = API_KEY

Unauthorized == Json(401, [ok |-> FALSE, error |-> "unauthorized"])

-----------------------------------------------------------------------------
(* GET /gmail/profile, lines 163-182 *)

NotLinked == Json(401, [ok |-> FALSE, error |-> "not_linked"])

ProfileCall(accessToken) ==
  [url |-> "https://gmail.googleapis.com/gmail/v1/users/me/profile",
   method |-> "GET", bearer |-> accessToken]

ProfileResponses ==
  { [status |-> 200, body |-> [emailAddress |-> "u1@example.com"]],
    [status |-> 200, body |-> NotJSON],
    [status |-> 401, body |-> [error |-> "invalid_credentials"]],
    [status |-> 502, body |-> NotJSON] }

ProfileException ==
  Json(500, [ok |-> FALSE, error |-> "gmail_profile_exception"])

\* Lines 165-171: up to the await of fetch.
ProfileArrives(q) ==
  LET userId == QueryUserId(q.userId)
      tokens == Get(userId)
  IN IF ~auth(q.authorization) THEN Answered("profile", q, Unauthorized)
     ELSE IF AccessToken(tokens) = "" THEN Answered("profile", q, NotLinked)
     ELSE Fetching("profile", q, [userId |-> userId, tokens |-> tokens],
                   ProfileCall(AccessToken(tokens)))

GmailProfile(r) ==
  /\ variant = "core"
  /\ Free(r)
  /\ \E h \in Authorizations, u \in QueryUserIds :
       req' = [req EXCEPT ![r] = ProfileArrives([authorization |-> h, userId |-> u])]
  /\ UNCHANGED << config, TOKENS, hist >>

\* Mutant: the handler has no catch, a rejected fetch ends it without a
\* response.
ProfileFetchedUncaught(r) ==
  /\ req[r].op = "profile" /\ req[r].pc = "fetch"
  /\ \/ req' = GoOn(r, "thrown", req[r].loc)
     \/ \E gRes \in ProfileResponses :
          req' = GoOn(r, "body", [userId |-> req[r].loc.userId,
                                  tokens |-> req[r].loc.tokens,
                                  gRes |-> gRes])
  /\ UNCHANGED << config, TOKENS, hist >>

\* Lines 169-172: fetch settles.
ProfileFetched(r) ==
  /\ req[r].op = "profile" /\ req[r].pc = "fetch"
  /\ \/ req' = Respond(r, ProfileException)
     \/ \E gRes \in ProfileResponses :
          req' = GoOn(r, "body", [userId |-> req[r].loc.userId,
                                  tokens |-> req[r].loc.tokens,
                                  gRes |-> gRes])
  /\ UNCHANGED << config, TOKENS, hist >>

\* Lines 172-177: gRes.json() settles.
ProfileResponse(gRes) ==
  IF gRes.body = NotJSON THEN ProfileException
  ELSE IF ~Ok(gRes)
    THEN Json(500, [ok |-> FALSE, error |-> "gmail_profile_failed",
                    detail |-> gRes.body])
  ELSE Json(200, [ok |-> TRUE, profile |-> gRes.body])

ProfileBody(r) ==
  /\ req[r].op = "profile" /\ req[r].pc = "body"
  /\ req' = Respond(r, ProfileResponse(req[r].loc.gRes))
  /\ UNCHANGED << config, TOKENS, hist >>

-----------------------------------------------------------------------------
(* POST /actions/create, lines 185-216 *)

\* req.body: userId and type may be absent; the mail's fields are fixed.
ActionBodies ==
  LET mail == [to |-> "a@b.com", subject |-> "hi", body |-> "hi"] IN
    { mail @@ f : f \in
        { <<>>, [type |-> "note"], [type |-> "email"],
          [userId |-> U1], [userId |-> U1, type |-> "note"],
          [userId |-> U1, type |-> "email"],
          [userId |-> <<>>, type |-> "email"],
          [userId |-> ANON, type |-> "note"] } }

\* A destructuring default: `field = dflt`.
Field(body, field, dflt) == IF field \in DOMAIN body THEN body[field] ELSE dflt

\* buildRfc822, lines 229-239: the message, before its transport encoding.
buildRfc822(to, subject, text) ==
  [To |-> to, ContentType |-> "text/plain; charset=\"UTF-8\"",
   MIMEVersion |-> "1.0", Subject |-> subject, text |-> text]

SendCall(accessToken, raw) ==
  [url |-> "https://gmail.googleapis.com/gmail/v1/users/me/messages/send",
   method |-> "POST", bearer |-> accessToken, raw |-> raw]

SendResponses ==
  { [status |-> 200, body |-> [id |-> "msg123"]],
    [status |-> 200, body |-> [labelIds |-> "SENT"]],
    [status |-> 200, body |-> NotJSON],
    [status |-> 403, body |-> [error |-> "insufficient_permissions"]],
    [status |-> 502, body |-> NotJSON] }

ActionsException ==
  Json(500, [ok |-> FALSE, error |-> "actions_create_exception"])

\* `act_${Date.now()}` and `msg_${Date.now()}`
LocalId(prefix, now) == <<prefix, now>>

Queued(type, now) ==
  Json(200, [ok |-> TRUE, id |-> LocalId("act_", now), type |-> type,
             status |-> "queued"])

\* Mutant: the credential is asked for before the type is looked at.
ActionArrivesLinkFirst(q, now) ==
  LET userId == Field(q.body, "userId", ANON)
      type == Field(q.body, "type", "note")
      tokens == Get(userId)
  IN IF ~auth(q.authorization) THEN Answered("action", q, Unauthorized)
     ELSE IF AccessToken(tokens) = ""
       THEN Answered("action", q,
              Json(401, [ok |-> FALSE, error |-> "not_linked",
                         message |-> "Please link Gmail at /oauth/google/start?userId=YOU"]))
     ELSE IF type # "email" THEN Answered("action", q, Queued(type, now))
     ELSE Fetching("action", q, [userId |-> userId, tokens |-> tokens],
                   SendCall(AccessToken(tokens),
                            buildRfc822(q.body.to, q.body.subject, q.body.body)))

\* Lines 187-205: up to the await of fetch.
ActionArrives(q, now) ==
  LET userId == Field(q.body, "userId", ANON)
      type == Field(q.body, "type", "note")
      tokens == Get(userId)
  IN IF ~auth(q.authorization) THEN Answered("action", q, Unauthorized)
     ELSE IF type # "email" THEN Answered("action", q, Queued(type, now))
     ELSE IF AccessToken(tokens) = ""
       THEN Answered("action", q,
              Json(401, [ok |-> FALSE, error |-> "not_linked",
                         message |-> "Please link Gmail at /oauth/google/start?userId=YOU"]))
     ELSE Fetching("action", q, [userId |-> userId, tokens |-> tokens],
                   SendCall(AccessToken(tokens),
                            buildRfc822(q.body.to, q.body.subject, q.body.body)))

ActionsCreate(r) ==
  /\ variant = "core"
  /\ Free(r)
  /\ \E h \in Authorizations, b \in ActionBodies, now \in Clock :
       req' = [req EXCEPT ![r] = ActionArrives([authorization |-> h, body |-> b], now)]
  /\ UNCHANGED << config, TOKENS, hist >>

\* Mutant: a rejected send is sent once more before the handler gives up.
ActionFetchedRetries(r) ==
  /\ req[r].op = "action" /\ req[r].pc = "fetch"
  /\ \/ IF Len(req[r].calls) < 2
        THEN req' = [req EXCEPT ![r].calls = Append(@, @[1])]
        ELSE req' = Respond(r, ActionsException)
     \/ \E sendRes \in SendResponses :
          req' = GoOn(r, "body", [userId |-> req[r].loc.userId,
                                  tokens |-> req[r].loc.tokens,
                                  sendRes |-> sendRes])
  /\ UNCHANGED << config, TOKENS, hist >>

\* Lines 198-206: fetch settles.
ActionFetched(r) ==
  /\ req[r].op = "action" /\ req[r].pc = "fetch"
  /\ \/ req' = Respond(r, ActionsException)
     \/ \E sendRes \in SendResponses :
          req' = GoOn(r, "body", [userId |-> req[r].loc.userId,
                                  tokens |-> req[r].loc.tokens,
                                  sendRes |-> sendRes])
  /\ UNCHANGED << config, TOKENS, hist >>

\* Mutant: the id is always made locally.
SentIdLocal(data, now) == LocalId("msg_", now)

\* Line 211: data?.id || `msg_${Date.now()}`
SentId(data, now) ==
  IF "id" \in DOMAIN data /\ data.id # "" THEN data.id ELSE LocalId("msg_", now)

\* Lines 206-211: sendRes.json() settles.
ActionResponse(sendRes, now) ==
  IF sendRes.body = NotJSON THEN ActionsException
  ELSE IF ~Ok(sendRes)
    THEN Json(500, [ok |-> FALSE, error |-> "gmail_send_failed",
                    detail |-> sendRes.body])
  ELSE Json(200, [ok |-> TRUE, id |-> SentId(sendRes.body, now),
                  status |-> "sent"])

ActionBody(r) ==
  /\ req[r].op = "action" /\ req[r].pc = "body"
  /\ \E now \in Clock : req' = Respond(r, ActionResponse(req[r].loc.sendRes, now))
  /\ UNCHANGED << config, TOKENS, hist >>

-----------------------------------------------------------------------------
(* POST /voice/ingest, lines 38-87, with the helpers of lines 219-225 *)

\* Text that reaches the markup is a sequence of pieces: each character that
\* escapeForSSML, trim or toLowerCase treats specially is a piece of its own.

\* Mutant: the first "&" only is replaced, as by a pattern without the g flag.
escapeForSSMLFirst(s) ==
  LET strip(t) == SelectSeq(t, LAMBDA c : c \notin {"<", ">", "\"", "'"})
      first == IF \E i \in 1..Len(s) : s[i] = "&"
               THEN CHOOSE i \in 1..Len(s) :
                      s[i] = "&" /\ \A j \in 1..(i - 1) : s[j] # "&"
               ELSE 0
  IN strip([i \in 1..Len(s) |-> IF i = first THEN "and" ELSE s[i]])

\* escapeForSSML: .replace(/&/g, "and").replace(/[<>\"']/g, "")
RECURSIVE escapeForSSML(_)
escapeForSSML(s) ==
  IF Len(s) = 0 THEN <<>>
  ELSE (IF s[1] = "&" THEN <<"and">>
        ELSE IF s[1] \in {"<", ">", "\"", "'"} THEN <<>>
        ELSE <<s[1]>>) \o escapeForSSML(Tail(s))

\* wrapToSSML; the root element's tags are pieces of their own.
wrapToSSML(text) ==
  <<"<speak>", "<p>">> \o escapeForSSML(text) \o <<"</p>", "</speak>">>

\* String.prototype.trim
RECURSIVE TrimStart(_)
TrimStart(s) == IF Len(s) > 0 /\ s[1] = " " THEN TrimStart(Tail(s)) ELSE s
RECURSIVE TrimEnd(_)
TrimEnd(s) ==
  IF Len(s) > 0 /\ s[Len(s)] = " " THEN TrimEnd(SubSeq(s, 1, Len(s) - 1)) ELSE s
Trim(s) == TrimEnd(TrimStart(s))

\* req.body.text
Texts ==
  { <<>>, <<" ">>, <<"<", "script", ">">>, <<"&", "<", "&">>,
    <<" ", "A", "&", "'", "\"", "b", " ">> }

Hello == <<"<speak>", "Hello, I am Sonny. How can I help?", "</speak>">>

\* Lines 44-46.
FallbackSSML(input) ==
  IF Len(input) > 0
  THEN <<"<speak>", "<p>You said: ">> \o escapeForSSML(input)
       \o <<".</p><p>I'm here--what would you like to do next?</p>", "</speak>">>
  ELSE Hello

Session == [sessionId |-> "", userId |-> ""]

MindCall(input) ==
  [url |-> "https://api.openai.com/v1/chat/completions", method |-> "POST",
   bearer |-> OPENAI_API_KEY, model |-> "gpt-4o-mini",
   user |-> IF Len(input) > 0 THEN input
            ELSE <<"Greet the user briefly and ask how you can help.">>]

\* What the mind service answers; content is choices[0].message.content.
MindResponses ==
  { [status |-> 200, body |-> [content |-> <<"Be kind ", "&", " rest", "<", ">">>]],
    [status |-> 200, body |-> [choices |-> <<>>]],
    [status |-> 200, body |-> NotJSON],
    [status |-> 500, body |-> NotJSON] }

\* Mutant: the catch answers as the other handlers' catches do, without ssml.
IngestErrorSilent ==
  Json(500, [ok |-> FALSE, error |-> "voice_ingest_exception"])

\* Lines 83-86: the catch.
IngestError ==
  Json(200, [ok |-> FALSE,
             ssml |-> <<"<speak>", "Sorry, something went wrong.", "</speak>">>])

\* Lines 40-69: up to the await of fetch.
VoiceArrives(q) ==
  LET input == Trim(q.text) IN
    IF ~auth(q.authorization) THEN Answered("voice", q, Unauthorized)
    ELSE IF OPENAI_API_KEY = ""
      THEN Answered("voice", q,
             Json(200, [ok |-> TRUE, ssml |-> FallbackSSML(input),
                        session |-> Session, model |-> "fallback"]))
    ELSE Fetching("voice", q, [input |-> input], MindCall(input))

VoiceIngest(r) ==
  /\ variant = "core"
  /\ Free(r)
  /\ \E h \in Authorizations, t \in Texts :
       req' = [req EXCEPT ![r] = VoiceArrives([authorization |-> h, text |-> t])]
  /\ UNCHANGED << config, TOKENS, hist >>

\* Lines 55-78: fetch settles; the handler awaits apiRes.text() or apiRes.json().
VoiceFetched(r) ==
  /\ req[r].op = "voice" /\ req[r].pc = "fetch"
  /\ \/ req' = Respond(r, IngestError)
     \/ \E apiRes \in MindResponses :
          req' = GoOn(r, "body", [input |-> req[r].loc.input, apiRes |-> apiRes])
  /\ UNCHANGED << config, TOKENS, hist >>

\* Line 79: data?.choices?.[0]?.message?.content || "I'm here. ..."
Reply(data) ==
  IF "content" \in DOMAIN data /\ Len(data.content) > 0 THEN data.content
  ELSE <<"I", "'", "m here. What would you like to do next?">>

\* Lines 71-82: the body read settles; text() never rejects past its catch.
VoiceResponse(apiRes) ==
  IF ~Ok(apiRes)
    THEN Json(200, [ok |-> FALSE,
                    ssml |-> <<"<speak>", "Sorry, I couldn't reach my mind service.",
                               "</speak>">>,
                    error |-> <<"openai_", apiRes.status>>])
  ELSE IF apiRes.body = NotJSON THEN IngestError
  ELSE Json(200, [ok |-> TRUE, ssml |-> wrapToSSML(Reply(apiRes.body)),
                  session |-> Session, model |-> "gpt-4o-mini"])

VoiceBody(r) ==
  /\ req[r].op = "voice" /\ req[r].pc = "body"
  /\ req' = Respond(r, VoiceResponse(req[r].loc.apiRes))
  /\ UNCHANGED << config, TOKENS, hist >>

-----------------------------------------------------------------------------
(* The stub program, lines 249-303 *)

\* String.prototype.toLowerCase on the pieces of the model.
ToLowerCase(s) == [i \in 1..Len(s) |-> IF s[i] = "A" THEN "a" ELSE s[i]]

\* Lines 280-286.
StubSSML(lower) ==
  IF Len(lower) > 0
  THEN <<"<speak>", "<p>You said: <emphasis level=\"moderate\">">>
       \o escapeForSSML(lower)
       \o <<"</emphasis>.</p><p>I'm here--what would you like to do next?</p>",
           "</speak>">>
  ELSE Hello

\* POST /voice/ingest, lines 276-289.
StubVoiceIngest(r) ==
  /\ variant = "stub"
  /\ Free(r)
  /\ \E h \in Authorizations, t \in Texts :
       LET q == [authorization |-> h, text |-> t] IN
         req' = [req EXCEPT ![r] =
                   IF ~auth(h) THEN Answered("voice", q, Unauthorized)
                   ELSE Answered("voice", q,
                          Json(200, [ok |-> TRUE,
                                     ssml |-> StubSSML(Trim(ToLowerCase(t))),
                                     session |-> Session]))]
  /\ UNCHANGED << config, TOKENS, hist >>

\* POST /actions/create, lines 292-296.
StubActionsCreate(r) ==
  /\ variant = "stub"
  /\ Free(r)
  /\ \E h \in Authorizations, b \in ActionBodies, now \in Clock :
       LET q == [authorization |-> h, body |-> b] IN
         req' = [req EXCEPT ![r] =
                   IF ~auth(h) THEN Answered("action", q, Unauthorized)
                   ELSE Answered("action", q,
                                 Queued(Field(b, "type", "note"), now))]
  /\ UNCHANGED << config, TOKENS, hist >>

-----------------------------------------------------------------------------

Next ==
  \E r \in Workers :
    \/ Health(r)
    \/ OAuthStart(r)
    \/ OAuthCallback(r)
    \/ CallbackFetched(r)
    \/ CallbackBody(r)
    \/ GmailProfile(r)
    \/ ProfileFetched(r)
    \/ ProfileBody(r)
    \/ ActionsCreate(r)
    \/ ActionFetched(r)
    \/ ActionBody(r)
    \/ VoiceIngest(r)
    \/ VoiceFetched(r)
    \/ VoiceBody(r)
    \/ StubVoiceIngest(r)
    \/ StubActionsCreate(r)

Spec == Init /\ [][Next]_vars

\* The continuations of the handlers: what runs when an awaited fetch or an
\* awaited body read settles.
Settle(r) ==
  \/ CallbackFetched(r) \/ CallbackBody(r)
  \/ ProfileFetched(r) \/ ProfileBody(r)
  \/ ActionFetched(r) \/ ActionBody(r)
  \/ VoiceFetched(r) \/ VoiceBody(r)

\* An awaited promise of fetch or of a body read settles, by a response or by
\* the transport's rejection, and the event loop then runs the continuation
\* of the handler that awaits it.
FairSpec == Spec /\ \A r \in Workers : WF_vars(Settle(r))

-----------------------------------------------------------------------------
(* Requests handled at the same time *)

\* Two requests are open at once: the handler of one runs while the other
\* awaits its provider.
Pool == {1, 2}

\* The deployment is configured, and the callers hold the key.
Configured ==
  /\ variant = "core"
  /\ API_KEY = "k1"
  /\ OPENAI_API_KEY = "sk1"
  /\ GOOGLE_CLIENT_ID = "cid"
  /\ GOOGLE_REDIRECT_URI = "https://sonny/cb"

ConcurrentInit ==
  /\ Configured
  /\ TOKENS = <<>>
  /\ req = [r \in Pool |-> Idle]
  /\ hist = NoHistory

\* f with x mapped to v, and f without x.
Put(f, x, v) == [k \in DOMAIN f \cup {x} |-> IF k = x THEN v ELSE f[k]]
Drop(f, x) == [k \in DOMAIN f \ {x} |-> f[k]]

\* Lines 144-155, as CallbackBody, and the history of it: an exchange that
\* came back with a success status and a JSON body is the latest completed
\* exchange of its userId, and what reads observed before it is forgotten.
RecordedCallbackBody(r) ==
  /\ req[r].op = "callback" /\ req[r].pc = "body"
  /\ TOKENS' = IF CallbackStores(req[r].loc.tokenRes)
               THEN Set(req[r].loc.userId, req[r].loc.tokenRes.body)
               ELSE TOKENS
  /\ req' = Respond(r, CallbackResponse(req[r].loc.tokenRes))
  /\ hist' = IF Ok(req[r].loc.tokenRes) /\ req[r].loc.tokenRes.body # NotJSON
             THEN [hist EXCEPT
                     !.stored = Put(@, req[r].loc.userId, req[r].loc.tokenRes.body),
                     !.read = Drop(@, req[r].loc.userId)]
             ELSE hist
  /\ UNCHANGED config

\* A Callback with a code and a state token of Start.
ConcurrentCallback(r) ==
  /\ Free(r)
  /\ \E u \in QueryUserIds :
       req' = [req EXCEPT ![r] =
                 CallbackArrives([code |-> "c1",
                                  state |-> EncodeState(QueryUserId(u), 9)])]
  /\ UNCHANGED << config, TOKENS, hist >>

\* A profile query with the key.
ConcurrentProfile(r) ==
  /\ Free(r)
  /\ \E u \in QueryUserIds :
       req' = [req EXCEPT ![r] =
                 ProfileArrives([authorization |-> <<"Bearer ", API_KEY>>,
                                 userId |-> u])]
  /\ UNCHANGED << config, TOKENS, hist >>

\* The dispatches of an email for "anon" and for the user of the model.
EmailBodies ==
  {b \in ActionBodies :
     Field(b, "type", "note") = "email" /\ Field(b, "userId", ANON) \in {ANON, U1}}

\* The dispatch of an email with the key.
ConcurrentAction(r) ==
  /\ Free(r)
  /\ \E b \in EmailBodies, now \in Clock :
       req' = [req EXCEPT ![r] =
                 ActionArrives([authorization |-> <<"Bearer ", API_KEY>>,
                                body |-> b], now)]
  /\ UNCHANGED << config, TOKENS, hist >>

ConcurrentNext ==
  \E r \in Pool :
    \/ ConcurrentCallback(r)
    \/ CallbackFetched(r)
    \/ RecordedCallbackBody(r)
    \/ ConcurrentProfile(r)
    \/ ProfileFetched(r)
    \/ ProfileBody(r)
    \/ ConcurrentAction(r)
    \/ ActionFetched(r)
    \/ ActionBody(r)

ConcurrentSpec == ConcurrentInit /\ [][ConcurrentNext]_vars

-----------------------------------------------------------------------------

(* The flows with their history *)

\* The read of the store by a handler that got past auth: what it observed
\* under the userId, and whether an earlier read had observed that userId
\* since the last successful Callback for it.
Observe(userId) ==
  [hist EXCEPT !.read = Put(@, userId, [tokens |-> Get(userId),
                                        again |-> userId \in DOMAIN @])]

\* Lines 90-120, as OAuthStart, and the history of it: the userId whose flow
\* a redirect started.
RecordedStart(r) ==
  /\ Free(r)
  /\ \E q \in QueryUserIds, now \in Clock :
       /\ req' = [req EXCEPT ![r] =
                    Answered("start", [userId |-> q],
                             StartResponse(QueryUserId(q), now))]
       /\ hist' = IF StartResponse(QueryUserId(q), now).type = "redirect"
                  THEN [hist EXCEPT !.started = @ \cup {QueryUserId(q)}]
                  ELSE hist
  /\ UNCHANGED << config, TOKENS >>

\* Lines 163-171, as ConcurrentProfile, and the history of its read (line 166).
RecordedProfile(r) ==
  /\ Free(r)
  /\ \E u \in QueryUserIds :
       /\ req' = [req EXCEPT ![r] =
                    ProfileArrives([authorization |-> <<"Bearer ", API_KEY>>,
                                    userId |-> u])]
       /\ hist' = Observe(QueryUserId(u))
  /\ UNCHANGED << config, TOKENS >>

\* Lines 185-205, as ConcurrentAction, and the history of its read (line 193).
RecordedAction(r) ==
  /\ Free(r)
  /\ \E b \in EmailBodies, now \in Clock :
       /\ req' = [req EXCEPT ![r] =
                    ActionArrives([authorization |-> <<"Bearer ", API_KEY>>,
                                   body |-> b], now)]
       /\ hist' = Observe(Field(b, "userId", ANON))
  /\ UNCHANGED << config, TOKENS >>

HistoryInit ==
  /\ Configured
  /\ TOKENS = <<>>
  /\ req = [r \in Workers |-> Idle]
  /\ hist = NoHistory

HistoryNext ==
  \E r \in Workers :
    \/ RecordedStart(r)
    \/ OAuthCallback(r)
    \/ CallbackFetched(r)
    \/ RecordedCallbackBody(r)
    \/ RecordedProfile(r)
    \/ ProfileFetched(r)
    \/ ProfileBody(r)
    \/ RecordedAction(r)
    \/ ActionFetched(r)
    \/ ActionBody(r)

HistorySpec == HistoryInit /\ [][HistoryNext]_vars

-----------------------------------------------------------------------------

(* Vocabulary of the properties *)

\* Worker r takes the step.
Moved(r) == req'[r] # req[r]

\* The response of a handled request.
Response(r) == req[r].res[1]

\* The request's token exchange came back with this response.
Exchanged(r) ==
  req[r].op = "callback" /\ req[r].pc \in {"body", "done"}
  /\ "tokenRes" \in DOMAIN req[r].loc

\* The Start inputs whose state token is s, for every token Start hands out.
IssuedTo ==
  [s \in IssuedStates |->
     {u \in QueryUserIds : \E now \in Clock : EncodeState(QueryUserId(u), now) = s}]

-----------------------------------------------------------------------------
(* C1 *)

\* Every entry of TOKENS is the whole body of a token response with a
\* success status.
C1_StoreHoldsExchanges ==
  \A u \in DOMAIN TOKENS :
    \E t \in TokenResponses : Ok(t) /\ t.body # NotJSON /\ TOKENS[u] = t.body

\* Worker r ends a Callback whose exchange came back with a success status:
\* the whole body goes under the Callback's userId, no other entry changes.
C1_CommitStep(r) ==
  /\ req[r].op = "callback" /\ req[r].pc = "body"
  /\ Ok(req[r].loc.tokenRes)
  /\ req'[r].pc = "done"
  /\ DOMAIN TOKENS' = DOMAIN TOKENS \cup {req[r].loc.userId}
  /\ TOKENS'[req[r].loc.userId] = req[r].loc.tokenRes.body
  /\ \A k \in DOMAIN TOKENS \ {req[r].loc.userId} : TOKENS'[k] = TOKENS[k]

\* C1: every entry of TOKENS is the whole body of a token response with a
\* success status, and a step changes TOKENS only when it is the step of a
\* Callback whose exchange came back with a success status, which puts that
\* whole body under the Callback's userId and touches no other entry; the
\* steps of every other handler leave TOKENS as it was.
C1_SingleCommitPoint ==
  /\ []C1_StoreHoldsExchanges
  /\ [][TOKENS' # TOKENS => \E r \in Workers : C1_CommitStep(r)]_vars

\* A second user was linked by the Callback that just ended.
C1_Witness ==
  \E r \in Workers :
    /\ Exchanged(r) /\ req[r].pc = "done"
    /\ Ok(req[r].loc.tokenRes)
    /\ req[r].loc.userId \in DOMAIN TOKENS
    /\ TOKENS[req[r].loc.userId] = req[r].loc.tokenRes.body
    /\ Cardinality(DOMAIN TOKENS) = 2

-----------------------------------------------------------------------------
(* C2 *)

\* C2: the step that ends a Callback whose exchange came back with a
\* non-success status leaves TOKENS as it was, and answers 500 with one of
\* the two fixed texts; the steps before it (arrival, fetch) leave TOKENS as
\* it was too.
C2_FailedExchangeKeepsStore ==
  [][\A r \in Workers :
       /\ (Moved(r) /\ req'[r].op = "callback" /\ req'[r].pc \in {"fetch", "body"})
            => TOKENS' = TOKENS
       /\ (Moved(r) /\ Exchanged(r) /\ req[r].pc = "body"
           /\ ~Ok(req[r].loc.tokenRes))
            => /\ TOKENS' = TOKENS
               /\ req'[r].pc = "done"
               /\ req'[r].res \in { <<Send(500, "Token exchange failed.")>>,
                                    <<Send(500, "OAuth callback error.")>> }
    ]_vars

C2_Witness ==
  \E r \in Workers :
    /\ Exchanged(r) /\ req[r].pc = "done"
    /\ ~Ok(req[r].loc.tokenRes)
    /\ req[r].loc.userId \in DOMAIN TOKENS
    /\ Response(r).status = 500

-----------------------------------------------------------------------------
(* C3 *)

\* The state tokens that are there and malformed.
MalformedStates == ForgedStates \ {<<>>}

\* C3: a Callback whose state token is malformed (no base64, cut short, a
\* character outside the alphabet, a document without a userId) is answered 400
\* at once and sends no token exchange, and TOKENS stays as it was.
C3_MalformedStateIs400 ==
  [][\A r \in Workers :
       (Moved(r) /\ req'[r].op = "callback"
        /\ req'[r].q.state \in MalformedStates)
         => /\ TOKENS' = TOKENS
            /\ req'[r].pc = "done"
            /\ req'[r].calls = <<>>
            /\ Len(req'[r].res) = 1
            /\ req'[r].res[1].status = 400
    ]_vars

-----------------------------------------------------------------------------
(* C4 *)

\* C4: a Callback without a code is answered 400 "Missing code" at once,
\* whatever its state token, sends no token exchange and leaves TOKENS as
\* it was.
C4_EmptyCodeIs400 ==
  [][\A r \in Workers :
       (Moved(r) /\ req'[r].op = "callback" /\ req'[r].q.code = "")
         => /\ TOKENS' = TOKENS
            /\ req'[r].pc = "done"
            /\ req'[r].calls = <<>>
            /\ req'[r].res = <<Send(400, "Missing code")>>
    ]_vars

-----------------------------------------------------------------------------
(* C5 *)

\* An authorized POST /actions/create whose type is not "email".
C5_OtherAction(r) ==
  /\ req[r].op = "action"
  /\ auth(req[r].q.authorization)
  /\ Field(req[r].q.body, "type", "note") # "email"

\* C5: an authorized dispatch of a type other than email is answered at
\* once, without a fetch and whatever TOKENS holds: 200, ok, status queued,
\* the type echoed and an id made of "act_" and the clock.
C5_OtherTypesAreQueued ==
  \A r \in Workers :
    C5_OtherAction(r)
      => /\ req[r].pc = "done"
         /\ req[r].calls = <<>>
         /\ Len(req[r].res) = 1
         /\ Response(r).status = 200 /\ Response(r).type = "json"
         /\ Response(r).body.ok
         /\ Response(r).body.status = "queued"
         /\ Response(r).body.type = Field(req[r].q.body, "type", "note")
         /\ \E now \in Clock : Response(r).body.id = <<"act_", now>>

\* A note for a user who has no record, in the core program.
C5_Witness ==
  \E r \in Workers :
    /\ C5_OtherAction(r) /\ variant = "core"
    /\ "userId" \in DOMAIN req[r].q.body
    /\ req[r].q.body.userId = U1 /\ U1 \notin DOMAIN TOKENS
    /\ ANON \in DOMAIN TOKENS
    /\ Response(r).body.status = "queued"

-----------------------------------------------------------------------------
(* C6 *)

\* The user id a profile query or a dispatch reads the store with.
ReadUserId(op, q) ==
  IF op = "profile" THEN QueryUserId(q.userId) ELSE Field(q.body, "userId", ANON)

\* The request that arrives in this step is an authorized profile query or
\* an authorized dispatch of an email.
C6_ReadArrives(r) ==
  /\ Moved(r) /\ Free(r)
  /\ variant = "core"
  /\ req'[r].op \in {"profile", "action"}
  /\ auth(req'[r].q.authorization)
  /\ req'[r].op = "action" => Field(req'[r].q.body, "type", "note") = "email"

\* C6: when an authorized email dispatch or profile query arrives and TOKENS
\* holds no record with a non-empty access_token under the request's userId
\* (absent counts as "anon"), it is answered 401 not_linked at once, without
\* a fetch; otherwise exactly one fetch is issued, and its bearer is the
\* access_token TOKENS holds under that userId.
C6_NotLinkedOrOwnToken ==
  [][\A r \in Workers :
       C6_ReadArrives(r) =>
         LET u == ReadUserId(req'[r].op, req'[r].q)
             held == IF u \in DOMAIN TOKENS /\ "access_token" \in DOMAIN TOKENS[u]
                     THEN TOKENS[u].access_token ELSE ""
         IN IF held = ""
            THEN /\ req'[r].pc = "done" /\ req'[r].calls = <<>>
                 /\ Len(req'[r].res) = 1
                 /\ req'[r].res[1].status = 401
                 /\ req'[r].res[1].body.ok = FALSE
                 /\ req'[r].res[1].body.error = "not_linked"
            ELSE /\ req'[r].pc = "fetch" /\ req'[r].res = <<>>
                 /\ Len(req'[r].calls) = 1
                 /\ req'[r].calls[1].bearer = held
    ]_vars

\* An email for a user without a record is refused while another user is linked.
C6_Witness ==
  \E r \in Workers :
    /\ req[r].op = "action" /\ req[r].pc = "done"
    /\ auth(req[r].q.authorization)
    /\ Field(req[r].q.body, "type", "note") = "email"
    /\ Field(req[r].q.body, "userId", ANON) = U1
    /\ U1 \notin DOMAIN TOKENS
    /\ ANON \in DOMAIN TOKENS /\ AccessToken(TOKENS[ANON]) # ""
    /\ Response(r).status = 401

-----------------------------------------------------------------------------
(* C7 *)

\* The provider answered the send with this response.
Sent(r) ==
  req[r].op = "action" /\ req[r].pc = "done" /\ "sendRes" \in DOMAIN req[r].loc

\* C7: an email dispatch whose send came back with a success status and a
\* JSON body is answered 200 {ok: true, status: "sent"}; the id is the id of
\* the provider's body, and an id made of "msg_" and the clock only when the
\* body has none.
C7_SentWithProviderId ==
  \A r \in Workers :
    (Sent(r) /\ Ok(req[r].loc.sendRes) /\ req[r].loc.sendRes.body # NotJSON)
      => /\ Len(req[r].res) = 1
         /\ Response(r).status = 200
         /\ Response(r).body.ok
         /\ Response(r).body.status = "sent"
         /\ IF "id" \in DOMAIN req[r].loc.sendRes.body
            THEN Response(r).body.id = req[r].loc.sendRes.body.id
            ELSE \E now \in Clock : Response(r).body.id = <<"msg_", now>>

C7_Witness ==
  \E r \in Workers :
    /\ Sent(r) /\ Ok(req[r].loc.sendRes)
    /\ req[r].loc.sendRes.body = [id |-> "msg123"]
    /\ Response(r).body = [ok |-> TRUE, id |-> "msg123", status |-> "sent"]

-----------------------------------------------------------------------------
(* C8 *)

\* C8: an email dispatch whose send came back with a non-success status is
\* answered 500 {ok: false, error: "gmail_send_failed"} with the provider's
\* body as detail, and never with status sent.
C8_SendFailureIsStructured ==
  \A r \in Workers :
    (Sent(r) /\ ~Ok(req[r].loc.sendRes))
      => /\ Len(req[r].res) = 1
         /\ Response(r).status = 500 /\ Response(r).type = "json"
         /\ Response(r).body.ok = FALSE
         /\ Response(r).body.error = "gmail_send_failed"
         /\ "detail" \in DOMAIN Response(r).body
         /\ Response(r).body.detail = req[r].loc.sendRes.body

-----------------------------------------------------------------------------
(* C9 *)

\* The flow state Start builds from req.query.userId at time now, as a value.
FlowState(q, now) ==
  JsObject([k \in {<<"u","s","e","r","I","d">>, <<"t","s">>} |->
              IF k = <<"t","s">> THEN JsNumber(now)
              ELSE JsString(QueryUserId(q))])

\* Start redirected with a state token.
Redirected(r) ==
  req[r].op = "start" /\ Response(r).type = "redirect"

\* C9: the state token of every redirect of Start decodes, in Callback, to
\* the flow state Start built: the userId of the request ("anon" when the
\* request has none) and the time.  A Callback that carries a token Start
\* handed out and a code gets past the decoding, works under the userId of
\* that Start, and after a successful exchange TOKENS holds the token
\* response under that userId.
C9_StateRoundTrip ==
  \A r \in Workers :
    /\ Redirected(r)
         => /\ Response(r).body.state \in IssuedStates
            /\ Decoded[Response(r).body.state].ok
            /\ \E now \in Clock :
                 Decoded[Response(r).body.state].val
                   = FlowState(req[r].q.userId, now)
    /\ (req[r].op = "callback" /\ req[r].q.state \in IssuedStates
        /\ req[r].q.code # "")
         => /\ Len(req[r].calls) = 1
            /\ \A u \in IssuedTo[req[r].q.state] :
                 /\ req[r].loc.userId = QueryUserId(u)
                 /\ (req[r].pc = "done" /\ Exchanged(r)
                     /\ Ok(req[r].loc.tokenRes)
                     /\ req[r].loc.tokenRes.body # NotJSON)
                      => /\ QueryUserId(u) \in DOMAIN TOKENS
                         /\ TOKENS[QueryUserId(u)] = req[r].loc.tokenRes.body

\* The token of Start for the user whose id holds a quote came back in a
\* Callback, and the exchange stored a record under that id.
C9_Witness ==
  \E r \in Workers :
    /\ Exchanged(r) /\ req[r].pc = "done"
    /\ req[r].q.state \in IssuedStates
    /\ U1 \in IssuedTo[req[r].q.state]
    /\ Ok(req[r].loc.tokenRes)
    /\ U1 \in DOMAIN TOKENS
    /\ TOKENS[U1] = req[r].loc.tokenRes.body

-----------------------------------------------------------------------------
(* C10 *)

\* C10: Start changes neither TOKENS nor anything else the server keeps.
\* Without a client id or without a redirect URI it answers 500 with the
\* text "Google OAuth not configured." and no redirect; with both it answers
\* with one redirect to the provider's authorization endpoint that carries
\* the encoded flow state, access_type=offline and prompt=consent.
C10_StartRedirectsOrFails ==
  [][\A r \in Workers :
       (Moved(r) /\ req'[r].op = "start") =>
         /\ TOKENS' = TOKENS
         /\ UNCHANGED config
         /\ \A w \in Workers \ {r} : req'[w] = req[w]
         /\ req'[r].pc = "done" /\ req'[r].calls = <<>>
         /\ Len(req'[r].res) = 1
         /\ IF GOOGLE_CLIENT_ID = "" \/ GOOGLE_REDIRECT_URI = ""
            THEN req'[r].res[1] = Send(500, "Google OAuth not configured.")
            ELSE /\ req'[r].res[1].type = "redirect"
                 /\ req'[r].res[1].body.endpoint
                      = "https://accounts.google.com/o/oauth2/v2/auth"
                 /\ req'[r].res[1].body.client_id = GOOGLE_CLIENT_ID
                 /\ req'[r].res[1].body.redirect_uri = GOOGLE_REDIRECT_URI
                 /\ req'[r].res[1].body.access_type = "offline"
                 /\ req'[r].res[1].body.prompt = "consent"
                 /\ \E now \in Clock :
                      req'[r].res[1].body.state
                        = EncodeState(QueryUserId(req'[r].q.userId), now)
    ]_vars

\* Start with a client id and no redirect URI, after a user was linked.
C10_Witness ==
  \E r \in Workers :
    /\ req[r].op = "start"
    /\ GOOGLE_CLIENT_ID # "" /\ GOOGLE_REDIRECT_URI = ""
    /\ Response(r).status = 500
    /\ TOKENS # <<>>

-----------------------------------------------------------------------------
(* C11 *)

\* The endpoints behind auth.
Privileged == {"voice", "profile", "action"}

\* The header is "Bearer " followed by the configured key, and a key is
\* configured.
BearerMatches(header) == API_KEY # "" /\ header = <<"Bearer ", API_KEY>>

\* The request was rejected at the gate: one 401 unauthorized, no provider
\* call, nothing taken from the store into the handler.
Rejected(request) ==
  /\ request.pc = "done"
  /\ request.res = <<[status |-> 401, type |-> "json",
                      body |-> [ok |-> FALSE, error |-> "unauthorized"]]>>
  /\ request.calls = <<>>
  /\ request.loc = <<>>

\* C11: a request to /voice/ingest, /gmail/profile or /actions/create whose
\* Authorization header is not "Bearer " followed by the configured key, or
\* any such request when no key is configured, is answered 401 unauthorized
\* in the step of its arrival, with no provider call and no store entry in
\* the handler's hands, and that step leaves TOKENS as it was.
C11_GateRejectsBeforeHandler ==
  /\ [](\A r \in Workers :
          req[r].op \in Privileged /\ ~BearerMatches(req[r].q.authorization)
            => Rejected(req[r]))
  /\ [][\A r \in Workers :
          Moved(r) /\ req'[r].op \in Privileged
            /\ ~BearerMatches(req'[r].q.authorization)
            => Free(r) /\ Rejected(req'[r]) /\ TOKENS' = TOKENS]_vars

\* No key is configured, the caller sends an empty bearer token and asks for
\* the profile of a linked user: the request is rejected.
C11_Witness ==
  \E r \in Workers :
    /\ API_KEY = ""
    /\ req[r].op = "profile"
    /\ req[r].q.authorization = <<"Bearer ", "">>
    /\ AccessToken(Get(QueryUserId(req[r].q.userId))) # ""
    /\ Rejected(req[r])

-----------------------------------------------------------------------------
(* C12 *)

\* A response that carries a speakable document: json with an ssml member
\* that opens the speak element, holds something, and closes it.
Speakable(response) ==
  /\ response.type = "json"
  /\ "ssml" \in DOMAIN response.body
  /\ Len(response.body.ssml) >= 3
  /\ response.body.ssml[1] = "<speak>"
  /\ response.body.ssml[Len(response.body.ssml)] = "</speak>"

\* Worker r holds a /voice/ingest request that passed auth.
AuthorizedVoice(r) ==
  req[r].op = "voice" /\ BearerMatches(req[r].q.authorization)

\* C12: every /voice/ingest request that passed auth and is still awaiting
\* the mind service is eventually answered, and every answered one has
\* exactly one response, which carries an ssml document inside a speak
\* element: with no key configured, after a success, after a non-success
\* status, and after a rejected fetch or an unparsable body.
C12_VoiceAlwaysSpeaks ==
  /\ [](\A r \in Workers :
          AuthorizedVoice(r) /\ req[r].pc = "done"
            => Len(req[r].res) = 1 /\ Speakable(Response(r)))
  /\ \A r \in Workers :
       (AuthorizedVoice(r) /\ req[r].pc # "done")
         ~> (AuthorizedVoice(r) /\ req[r].pc = "done" /\ Speakable(Response(r)))

\* The mind service's answer could not be parsed, and the caller still got
\* a document.
C12_Witness ==
  \E r \in Workers :
    /\ AuthorizedVoice(r) /\ req[r].pc = "done"
    /\ "apiRes" \in DOMAIN req[r].loc
    /\ Ok(req[r].loc.apiRes) /\ req[r].loc.apiRes.body = NotJSON
    /\ Speakable(Response(r))

-----------------------------------------------------------------------------
(* C13 *)

\* The characters the markup must not receive from a text.
Markup == {"<", ">", "\"", "'"}

\* What a text becomes: its characters in order without those of Markup,
\* each "&" as the word "and".
Escaped(text) ==
  LET kept == SelectSeq(text, LAMBDA c : c \notin Markup)
  IN [i \in 1..Len(kept) |-> IF kept[i] = "&" THEN "and" ELSE kept[i]]

\* The part of an ssml document between its two leading and its two closing
\* pieces of template.
TextPortion(ssml) == SubSeq(ssml, 3, Len(ssml) - 2)

\* Worker r holds an answered /voice/ingest request whose document was made
\* from a text.
SpokeText(r) ==
  /\ AuthorizedVoice(r) /\ req[r].pc = "done"
  /\ Response(r).body.ok
  /\ Response(r).body.ssml # Hello

\* The text the document of worker r was made from: the mind service's
\* reply, or else the user's text, trimmed, and lower-cased by the stub.
SourceText(r) ==
  IF "apiRes" \in DOMAIN req[r].loc
    THEN IF "content" \in DOMAIN req[r].loc.apiRes.body
           THEN req[r].loc.apiRes.body.content
           ELSE <<"I", "'", "m here. What would you like to do next?">>
  ELSE IF variant = "core" THEN Trim(req[r].q.text)
  ELSE Trim(ToLowerCase(req[r].q.text))

\* C13: in every document made from a text (the user's text on the fallback
\* path and in the stub, the mind service's reply on the normal path) the
\* part that comes from the text holds none of < > " ' and no "&": it is the
\* text with those four characters removed, every "&" replaced by "and", and
\* every other character kept in its place.
C13_TextIsEscaped ==
  \A r \in Workers :
    SpokeText(r) =>
      /\ \A i \in DOMAIN TextPortion(Response(r).body.ssml) :
           TextPortion(Response(r).body.ssml)[i] \notin Markup \cup {"&"}
      /\ TextPortion(Response(r).body.ssml) = Escaped(SourceText(r))

\* The user's text holds two "&" with markup between them, and the document
\* says "and" twice.
C13_Witness ==
  \E r \in Workers :
    /\ SpokeText(r)
    /\ "apiRes" \notin DOMAIN req[r].loc
    /\ req[r].q.text = <<"&", "<", "&">>
    /\ TextPortion(Response(r).body.ssml) = <<"and", "and">>

-----------------------------------------------------------------------------
(* C16 *)

\* The state token decodes to a JSON object whose userId is a non-empty
\* string.
NamesUser(stateRaw) ==
  /\ Decoded[stateRaw].ok
  /\ Decoded[stateRaw].val.t = "object"
  /\ <<"u","s","e","r","I","d">> \in DOMAIN Decoded[stateRaw].val.v
  /\ Decoded[stateRaw].val.v[<<"u","s","e","r","I","d">>].t = "string"
  /\ Len(Decoded[stateRaw].val.v[<<"u","s","e","r","I","d">>].v) > 0

\* The entries of TOKENS that the step changes.
Written ==
  {k \in DOMAIN TOKENS' : k \notin DOMAIN TOKENS \/ TOKENS'[k] # TOKENS[k]}

\* C16: a Callback writes TOKENS only under the userId its state token
\* names; a Callback whose state token is empty, does not decode, or decodes
\* to a value without a userId is answered with an error status and writes
\* nothing, in particular nothing under "anon".
C16_StateFailsClosed ==
  /\ [](\A r \in Workers :
          (req[r].op = "callback" /\ req[r].pc = "done"
           /\ ~NamesUser(req[r].q.state))
            => Response(r).status >= 400)
  /\ [][\A r \in Workers :
          (Moved(r) /\ req[r].op = "callback" /\ Written # {})
            => /\ NamesUser(req[r].q.state)
               /\ Written =
                    {Decoded[req[r].q.state].val.v[<<"u","s","e","r","I","d">>].v}
    ]_vars

-----------------------------------------------------------------------------
(* C19 *)

\* The provider call of worker r's request failed: the fetch was rejected,
\* or its response has a non-success status or a body that is not JSON.
ProviderFailed(r, response) ==
  /\ req[r].pc = "done" /\ Len(req[r].calls) = 1
  /\ response \in DOMAIN req[r].loc
       => ~Ok(req[r].loc[response]) \/ req[r].loc[response].body = NotJSON

\* C19: an email dispatch and a Callback issue at most one provider call:
\* the handler's steps after the call was issued issue no other call,
\* whatever the provider answers, and a request whose call failed ends with
\* exactly one response, of status 500.
C19_NoRetries ==
  /\ [](\A r \in Workers :
          /\ req[r].op \in {"action", "callback"} => Len(req[r].calls) <= 1
          /\ (req[r].op = "action" /\ ProviderFailed(r, "sendRes"))
             \/ (req[r].op = "callback" /\ ProviderFailed(r, "tokenRes"))
               => Len(req[r].res) = 1 /\ Response(r).status = 500)
  /\ [][\A r \in Workers :
          (Moved(r) /\ ~Free(r) /\ req[r].op \in {"action", "callback"})
            => req'[r].calls = req[r].calls]_vars

\* The send of an email was rejected by the network, and the request ended
\* with its one call and its one response.
C19_Witness ==
  \E r \in Workers :
    /\ req[r].op = "action" /\ req[r].pc = "done"
    /\ Len(req[r].calls) = 1
    /\ "sendRes" \notin DOMAIN req[r].loc
    /\ req[r].res = <<[status |-> 500, type |-> "json",
                       body |-> [ok |-> FALSE, error |-> "actions_create_exception"]]>>

-----------------------------------------------------------------------------
(* C20 *)

\* The operations of the authorization flow and of the delegated actions.
FlowOps == {"start", "callback", "profile", "action"}

\* Worker r holds a request whose handler has not answered yet.
Pending(r) == req[r].op \in FlowOps /\ req[r].pc # "done"

\* Worker r holds a request whose provider call failed: the fetch was
\* rejected (no response among the locals), or the response has a
\* non-success status or a body that is not JSON.
CallFailed(r) ==
  /\ req[r].pc = "done" /\ Len(req[r].calls) = 1
  /\ \A l \in DOMAIN req[r].loc \cap {"tokenRes", "gRes", "sendRes"} :
       ~Ok(req[r].loc[l]) \/ req[r].loc[l].body = NotJSON

\* C20: every request to Start, Callback, the profile query and the action
\* dispatch that has not been answered is eventually answered; a request
\* never has more than one response and has one exactly when its handler is
\* done; and a request whose provider call was rejected, came back with a
\* non-success status or with an unparsable body is answered with an error
\* status.
C20_ExactlyOneResponse ==
  /\ [](\A r \in Workers :
          req[r].op \in FlowOps =>
            /\ Len(req[r].res) <= 1
            /\ req[r].pc = "done" <=> Len(req[r].res) = 1
            /\ CallFailed(r) => Response(r).status >= 400)
  /\ \A r \in Workers : Pending(r) ~> (req[r].op \in FlowOps /\ req[r].pc = "done")

\* A profile query whose fetch was rejected by the network has its one
\* response.
C20_Witness ==
  \E r \in Workers :
    /\ req[r].op = "profile" /\ req[r].pc = "done"
    /\ Len(req[r].calls) = 1
    /\ "gRes" \notin DOMAIN req[r].loc
    /\ Len(req[r].res) = 1 /\ Response(r).status = 500

-----------------------------------------------------------------------------
(* C14 *)

\* The request that arrives in this step at worker r reads the store: a
\* profile query or the dispatch of an email that got past auth.
ReadStep(r) ==
  /\ Moved(r) /\ Free(r)
  /\ req'[r].op \in {"profile", "action"}
  /\ BearerMatches(req'[r].q.authorization)
  /\ req'[r].op = "action" => Field(req'[r].q.body, "type", "note") = "email"

\* C14: a read of the store (by a profile query or by the dispatch of an
\* email) observes under its userId the record that the read before it
\* observed under that userId, unless a Callback for that userId completed
\* a successful exchange in between; what the handler goes on with is the
\* record observed; and no step of a profile query or of a dispatch changes
\* TOKENS.
C14_IdempotentRead ==
  [][\A r \in Workers :
       /\ ReadStep(r) =>
            LET u == ReadUserId(req'[r].op, req'[r].q) IN
              /\ u \in DOMAIN hist'.read
              /\ req'[r].pc = "fetch" => req'[r].loc.tokens = hist'.read[u].tokens
              /\ req'[r].pc = "done" => AccessToken(hist'.read[u].tokens) = ""
              /\ u \in DOMAIN hist.read
                   => hist'.read[u].tokens = hist.read[u].tokens
       /\ (Moved(r) /\ req'[r].op \in {"profile", "action"}) => TOKENS' = TOKENS
    ]_vars

\* Two users are linked, the record of one was read a second time, and the
\* handler holds the record the first read observed.
C14_Witness ==
  \E r \in Workers :
    /\ req[r].op \in {"profile", "action"} /\ req[r].pc = "fetch"
    /\ req[r].loc.userId \in DOMAIN hist.read
    /\ hist.read[req[r].loc.userId].again
    /\ req[r].loc.tokens = hist.read[req[r].loc.userId].tokens
    /\ Cardinality(DOMAIN TOKENS) = 2

-----------------------------------------------------------------------------
(* C15 *)

\* The userId a state token of Start was handed out for.
TokenUser(stateRaw) ==
  CHOOSE u \in {QueryUserId(q) : q \in QueryUserIds} :
    \E now \in Clock : EncodeState(u, now) = stateRaw

\* C15: every userId that has a record in TOKENS had a Start that
\* redirected; the step that puts a record under a userId ends a Callback
\* whose exchange came back with a success status and whose state token is
\* one Start hands out for that userId; and the step that ends a Callback
\* whose exchange failed leaves TOKENS as it was.
C15_LinkedOnlyAfterStart ==
  /\ [](DOMAIN TOKENS \subseteq hist.started)
  /\ [][\A r \in Workers :
          (Moved(r) /\ req[r].op = "callback")
            => /\ Written # {}
                    => /\ req[r].pc = "body"
                       /\ Ok(req[r].loc.tokenRes)
                       /\ req[r].q.state \in IssuedStates
                       /\ Written = {TokenUser(req[r].q.state)}
               /\ (req[r].pc = "body" /\ ~Ok(req[r].loc.tokenRes))
                    => TOKENS' = TOKENS
    ]_vars

-----------------------------------------------------------------------------
(* C17 *)

\* The whole body of a token response with a success status.
WholeResponse(record) ==
  \E t \in TokenResponses : Ok(t) /\ t.body # NotJSON /\ record = t.body

\* C17: with two requests open at once, every record a profile query or a
\* dispatch took from the store, and every record the store holds, is the
\* whole body of one token response with a success status; and a step
\* changes TOKENS only by putting such a body, whole, under the userId of
\* the Callback that ends, leaving the other entries as they were.
C17_ReadsSeeWholeRecords ==
  /\ [](/\ \A r \in Pool :
             (req[r].op \in {"profile", "action"}
              /\ "tokens" \in DOMAIN req[r].loc)
               => WholeResponse(req[r].loc.tokens)
        /\ \A u \in DOMAIN TOKENS : WholeResponse(TOKENS[u]))
  /\ [][TOKENS' # TOKENS => \E r \in Pool : C1_CommitStep(r)]_vars

\* A read is in flight with the record it took, and a Callback for the same
\* userId that was open at the same time has replaced that record.
C17_Witness ==
  \E r, w \in Pool :
    /\ req[r].op \in {"profile", "action"} /\ req[r].pc \in {"fetch", "body"}
    /\ Exchanged(w) /\ req[w].pc = "done" /\ Ok(req[w].loc.tokenRes)
    /\ req[w].loc.userId = req[r].loc.userId
    /\ TOKENS[req[r].loc.userId] = req[w].loc.tokenRes.body
    /\ TOKENS[req[r].loc.userId] # req[r].loc.tokens

-----------------------------------------------------------------------------
(* C18 *)

\* No Callback for the userId is open.
Quiet(u) ==
  \A r \in Pool :
    (req[r].op = "callback" /\ req[r].pc \in {"fetch", "body"})
      => req[r].loc.userId # u

\* The body of the exchange that completed last for the userId, among those
\* with a success status.
LastExchange(u) == IF u \in DOMAIN hist.stored THEN hist.stored[u] ELSE NoRecord

\* C18: with two Callbacks open at once, whenever no Callback for a userId
\* is open TOKENS holds under that userId the body of the successful
\* exchange that completed last for it, and nothing when none completed;
\* and the step that ends a Callback whose exchange failed leaves TOKENS as
\* it was.
C18_LastWriterWins ==
  /\ [](\A u \in DOMAIN TOKENS \cup DOMAIN hist.stored :
          Quiet(u) => Get(u) = LastExchange(u))
  /\ [][\A r \in Pool :
          (Moved(r) /\ req[r].op = "callback" /\ req'[r].pc = "done"
           /\ ("tokenRes" \in DOMAIN req[r].loc
                 => ~Ok(req[r].loc.tokenRes) \/ req[r].loc.tokenRes.body = NotJSON))
            => TOKENS' = TOKENS]_vars

\* Two Callbacks for one userId were open at once and both succeeded; the
\* one that ended last holds the record, and the other's tokens are gone.
C18_Witness ==
  \E r, w \in Pool :
    /\ r # w
    /\ Exchanged(r) /\ req[r].pc = "done" /\ Ok(req[r].loc.tokenRes)
    /\ Exchanged(w) /\ req[w].pc = "done" /\ Ok(req[w].loc.tokenRes)
    /\ req[r].loc.userId = req[w].loc.userId
    /\ req[r].loc.tokenRes.body # NotJSON /\ req[w].loc.tokenRes.body # NotJSON
    /\ req[r].loc.tokenRes.body # req[w].loc.tokenRes.body
    /\ TOKENS[req[r].loc.userId] = req[r].loc.tokenRes.body
    /\ LastExchange(req[r].loc.userId) = req[r].loc.tokenRes.body

=============================================================================
